---- MODULE Spec2Model ----
(***************************************************************************)
(* Model of the streaming job controller of pdf_translator.py:             *)
(* PDFTranslator.translate_pdf_async consuming the event stream of         *)
(* do_translate_async_stream, and TranslationResult built from the payload *)
(* of a "finish" event.                                                    *)
(*                                                                         *)
(* Python values are modelled as strings: a number by its literal, the     *)
(* value None by "None", and a dictionary key or an attribute that is not  *)
(* there by Absent.                                                        *)
(***************************************************************************)
EXTENDS Naturals, Sequences, FiniteSets

\* Longest event stream the engine emits in one run.
MaxEvents == 3

Absent == "<absent>"
None == "None"

\* Values a ':.1f' / ':.2f' format specification accepts.
Numbers == {"0", "0.0", "10.0", "50.0", "12.5", "256.0"}

PathFields ==
    {"original_pdf_path", "mono_pdf_path", "dual_pdf_path",
     "no_watermark_mono_pdf_path", "no_watermark_dual_pdf_path",
     "auto_extracted_glossary_path"}

NumberFields == {"total_seconds", "peak_memory_usage"}

Fields == PathFields \cup NumberFields

----------------------------------------------------------------------------
(* Payloads of a finish event and TranslationResult                        *)

\* A payload under event["translate_result"]: an object with attributes or a
\* dict with keys; attrs[f] = Absent when the attribute / key is not there.
Payload(shape, attrs) == [shape |-> shape, attrs |-> attrs]

\* event["translate_result"] when the key is missing.
NoPayload == Payload(Absent, [f \in Fields |-> Absent])

RecordFull ==
    Payload("object",
        [f \in Fields |->
            IF f = "total_seconds" THEN "12.5"
            ELSE IF f = "peak_memory_usage" THEN "256.0"
            ELSE IF f = "auto_extracted_glossary_path" THEN None
            ELSE "/out/" \o f])

DictPartial ==
    Payload("dict",
        [f \in Fields |->
            IF f = "mono_pdf_path" THEN "/out/doc.zh.mono.pdf"
            ELSE IF f = "total_seconds" THEN "10.0"
            ELSE Absent])

DictNoneSeconds ==
    Payload("dict",
        [f \in Fields |->
            IF f = "dual_pdf_path" THEN "/out/doc.zh.dual.pdf"
            ELSE IF f = "total_seconds" THEN None
            ELSE Absent])

RecordOnlyOriginal ==
    Payload("object",
        [f \in Fields |-> IF f = "original_pdf_path" THEN "/in/doc.pdf" ELSE Absent])

RecordNoOriginal ==
    Payload("object",
        [f \in Fields |->
            IF f = "mono_pdf_path" THEN "/out/doc.zh.mono.pdf"
            ELSE IF f = "peak_memory_usage" THEN "256.0"
            ELSE Absent])

Payloads ==
    {RecordFull, DictPartial, DictNoneSeconds, RecordOnlyOriginal,
     RecordNoOriginal, NoPayload}

\* hasattr(result_data, f)
HasAttr(p, f) == p.shape = "object" /\ p.attrs[f] # Absent

\* The value None of Python, as the value of the local variable result.
NoneValue == [kind |-> "None", attrs |-> [f \in Fields |-> Absent]]

\* result_data.get(f) / result_data.get(f, 0.0) for a missing key, and the
\* values of the unknown-format branch.
FieldDefault(f) == IF f \in NumberFields THEN "0.0" ELSE None

\* TranslationResult.__init__ raises AttributeError when the object has
\* original_pdf_path but lacks another of the attributes it reads.
TranslationResultRaises(p) ==
    /\ HasAttr(p, "original_pdf_path")
    /\ \E f \in Fields : ~HasAttr(p, f)

\* TranslationResult.__init__: the eight attributes of the new object.
TranslationResult(p) ==
    [kind |-> "TranslationResult",
     attrs |->
        IF HasAttr(p, "original_pdf_path")
        THEN [f \in Fields |-> p.attrs[f]]
        ELSE IF p.shape = "dict"
        THEN [f \in Fields |->
                IF p.attrs[f] # Absent THEN p.attrs[f] ELSE FieldDefault(f)]
        ELSE [f \in Fields |-> FieldDefault(f)]]

\* TranslationResult.__str__ formats total_seconds and peak_memory_usage with
\* ':.2f', which raises TypeError for a value that is not a number.
StrRaises(r) == \E f \in NumberFields : r.attrs[f] \notin Numbers

----------------------------------------------------------------------------
(* Events of the engine's stream                                           *)

\* An item the stream yields: None, or a dict; a key that is missing is Absent.
Event(py, type, sp, op, tr) ==
    [py |-> py, type |-> type, stage_progress |-> sp, overall_progress |-> op,
     translate_result |-> tr]

NullEvent == Event("None", Absent, Absent, Absent, NoPayload)
EmptyEvent == Event("dict", Absent, Absent, Absent, NoPayload)
UnknownEvent == Event("dict", "heartbeat", Absent, Absent, NoPayload)
ErrorEvent == Event("dict", "error", Absent, Absent, NoPayload)
Progress(sp, op) == Event("dict", "progress_update", sp, op, NoPayload)
Finish(p) == Event("dict", "finish", Absent, Absent, p)

ProgressEvents ==
    {Progress("10.0", "0"), Progress("50.0", "12.5"), Progress(Absent, Absent),
     Progress(None, "10.0")}

Events ==
    {NullEvent, EmptyEvent, UnknownEvent, ErrorEvent}
        \cup ProgressEvents \cup {Finish(p) : p \in Payloads}

\* Exceptions the engine's stream raises from __anext__.
StreamErrors == {"ConnectionError", "RuntimeError"}

\* event.get("type") of an item that is not None.
EventType(e) == e.type

IsProgressUpdate(e) == e.py = "dict" /\ EventType(e) = "progress_update"
IsError(e) == e.py = "dict" /\ EventType(e) = "error"
IsFinish(e) == e.py = "dict" /\ EventType(e) = "finish"

----------------------------------------------------------------------------
(* The body of the loop of translate_pdf_async, one event at a time        *)

\* What handling one event does: the exception it raises ("none" when it
\* completes), the value of result afterwards, whether progress_callback was
\* invoked with the event, and the records it logs.
Effect(exc, res, forwarded, logs) ==
    [exc |-> exc, result |-> res, forwarded |-> forwarded, logs |-> logs]

\* event.get(key, 0)
GetOrZero(v) == IF v = Absent THEN "0" ELSE v

\* Variant of OnProgressUpdate: the callback is skipped for an event without
\* stage_progress.
OnProgressUpdate_NoForward(e, cb, res) ==
    IF GetOrZero(e.stage_progress) \notin Numbers
        \/ GetOrZero(e.overall_progress) \notin Numbers
    THEN Effect("TypeError", res, FALSE, <<>>)
    ELSE Effect(IF cb = "raises" /\ e.stage_progress # Absent
                THEN "ObserverError" ELSE "none",
                res, cb # "none" /\ e.stage_progress # Absent,
                <<"INFO progress">>)

\* The progress_update branch: format and log the progress line, then invoke
\* progress_callback when one was given; a callback that raises ends the run.
OnProgressUpdate(e, cb, res) ==
    IF GetOrZero(e.stage_progress) \notin Numbers
        \/ GetOrZero(e.overall_progress) \notin Numbers
    THEN Effect("TypeError", res, FALSE, <<>>)
    ELSE Effect(IF cb = "raises" THEN "ObserverError" ELSE "none", res,
                cb # "none", <<"INFO progress">>)

\* Variant of OnError: the error event is raised as an exception.
OnError_Raises(e, res) == Effect("RuntimeError", res, FALSE, <<"ERROR event">>)

\* The error branch: the error is logged, nothing else.
OnError(e, res) == Effect("none", res, FALSE, <<"ERROR event">>)

\* Variant of OnFinish: a missing payload gives a result of defaults.
OnFinish_DefaultResult(e, res) ==
    IF TranslationResultRaises(e.translate_result)
    THEN Effect("AttributeError", res, FALSE, <<>>)
    ELSE IF StrRaises(TranslationResult(e.translate_result))
    THEN Effect("TypeError", TranslationResult(e.translate_result), FALSE,
                <<"INFO finished">>)
    ELSE Effect("none", TranslationResult(e.translate_result), FALSE,
                <<"INFO finished", "INFO result">>)

\* The finish branch: event["translate_result"] (KeyError when missing),
\* TranslationResult(...), then the result is logged through str(result).
OnFinish(e, res) ==
    IF e.translate_result = NoPayload
    THEN Effect("KeyError", res, FALSE, <<>>)
    ELSE IF TranslationResultRaises(e.translate_result)
    THEN Effect("AttributeError", res, FALSE, <<>>)
    ELSE IF StrRaises(TranslationResult(e.translate_result))
    THEN Effect("TypeError", TranslationResult(e.translate_result), FALSE,
                <<"INFO finished">>)
    ELSE Effect("none", TranslationResult(e.translate_result), FALSE,
                <<"INFO finished", "INFO result">>)

\* Variant of Body: an event of no known kind is logged as a warning.
Body_UnknownLogged(e, cb, res) ==
    IF e.py = "None" THEN Effect("none", res, FALSE, <<>>)
    ELSE IF EventType(e) = "progress_update" THEN OnProgressUpdate(e, cb, res)
    ELSE IF EventType(e) = "error" THEN OnError(e, res)
    ELSE IF EventType(e) = "finish" THEN OnFinish(e, res)
    ELSE Effect("none", res, FALSE, <<"WARNING unknown event">>)

\* The body of the async for loop for one event, dispatched by kind.
Body(e, cb, res) ==
    IF e.py = "None" THEN Effect("none", res, FALSE, <<>>)
    ELSE IF EventType(e) = "progress_update" THEN OnProgressUpdate(e, cb, res)
    ELSE IF EventType(e) = "error" THEN OnError(e, res)
    ELSE IF EventType(e) = "finish" THEN OnFinish(e, res)
    ELSE Effect("none", res, FALSE, <<>>)

----------------------------------------------------------------------------
(* How a call of translate_pdf_async ends                                  *)

Running == [kind |-> "running", exc |-> "none", value |-> NoneValue]
Returned(res) == [kind |-> "returned", exc |-> "none", value |-> res]
Raised(exc) == [kind |-> "raised", exc |-> exc, value |-> NoneValue]

\* Variant of ExceptHandler: the exception is swallowed and result returned.
ExceptHandler_Swallow(exc, res) == Returned(res)

\* except Exception as e: log the failure and re-raise the same exception.
ExceptHandler(exc, res) == Raised(exc)

\* return result, after the loop.
ReturnResult(res) == Returned(res)

\* Variant of OnCancelled: the cancellation is swallowed and result returned.
OnCancelled_Swallowed(res) == Returned(res)

\* CancelledError raised at the await of the next event: it is no Exception,
\* so the except clause does not apply and it leaves the call as it is.
OnCancelled(res) == Raised("CancelledError")

\* Variant of TranslatePdf: a failure of the run is turned into a None result.
TranslatePdf_Swallow(loopIsRunning, out) ==
    IF loopIsRunning THEN Raised("RuntimeError")
    ELSE IF out.kind = "raised" THEN Returned(NoneValue) ELSE out

\* translate_pdf: asyncio.run(self.translate_pdf_async(...)). asyncio.run
\* refuses to start inside a running event loop (RuntimeError); otherwise it
\* runs the coroutine to its end and returns its value or raises its exception.
TranslatePdf(loopIsRunning, out) ==
    IF loopIsRunning THEN Raised("RuntimeError") ELSE out

\* Variant of CheckInput: the existence check is left out.
CheckInput_Skipped(exists) == "none"

\* input_path.exists(), else FileNotFoundError.
CheckInput(exists) == IF exists THEN "none" ELSE "FileNotFoundError"

\* Variant of CreateSettings: an unknown engine falls back to the default.
CreateSettings_DefaultEngine(eng) == "none"

\* _create_settings: only the "openai" engine is supported, else ValueError.
CreateSettings(eng) == IF eng = "openai" THEN "none" ELSE "ValueError"

\* settings.validate_settings(), which raises when it rejects the settings.
ValidateSettings(valid) == IF valid THEN "none" ELSE "ValidationError"

\* The statements of translate_pdf_async before the try block, in order: the
\* exception that ends the call there ("none": the stream is requested) and
\* whether a SettingsModel was built.
Preflight(exists, eng, valid) ==
    IF CheckInput(exists) # "none"
    THEN [exc |-> CheckInput(exists), settings |-> "unbuilt"]
    ELSE IF CreateSettings(eng) # "none"
    THEN [exc |-> CreateSettings(eng), settings |-> "unbuilt"]
    ELSE IF ValidateSettings(valid) # "none"
    THEN [exc |-> ValidateSettings(valid), settings |-> "built"]
    ELSE [exc |-> "none", settings |-> "built"]

----------------------------------------------------------------------------
(* One call of translate_pdf_async as a state machine                      *)

VARIABLES
    inputExists,    \* Path(input_pdf).exists()
    engine,         \* self.config.get("translation_engine")
    settingsValid,  \* whether settings.validate_settings() accepts
    callback,       \* progress_callback: "none", or how the callable behaves
    pc,             \* where the call is: start, await, dispatch, callback, done
    settings,       \* "built" once a SettingsModel was constructed
    streamState,    \* unopened, open, exhausted, raised, cancelled
    streamExc,      \* the exception the stream raised, "none" before
    releases,       \* how many times the stream was finalized
    emitted,        \* the events the stream has yielded, in order
    event,          \* the loop variable
    result,         \* the local variable result
    calls,          \* the arguments of the invocations of progress_callback
    completed,      \* how many of these invocations have ended
    log,            \* the records logged
    outcome,        \* how the call ended, Running before
    mode,           \* "async": translate_pdf_async awaited; "sync": translate_pdf
    loopRunning,    \* whether the calling thread already runs an event loop
    facade          \* how translate_pdf ended, Running before

\* The state of the other specifications of this module, which a call of
\* translate_pdf_async leaves alone.
VARIABLES
    engineModule,   \* what importing the engine's module finds
    patch,          \* what _apply_babeldoc_patch has done
    raw,            \* the text given to the sanitizer
    outs,           \* what the sanitizer returned for it
    present,        \* the fields a payload carries
    built,          \* the TranslationResult built from it in both shapes
    runs,           \* the concurrent calls of one translator
    cells,          \* the storage of their result variables
    cli             \* a run of main() from the command line

sanitizerVars == <<engineModule, patch, raw, outs>>
resultVars == <<present, built>>
pairVars == <<runs, cells>>
cliVars == <<cli>>

inputs == <<inputExists, engine, settingsValid, callback, mode, loopRunning>>

callVars ==
    <<inputs, pc, settings, streamState, streamExc, releases, emitted, event,
      result, calls, completed, log, outcome, facade>>

vars == <<callVars, sanitizerVars, resultVars, pairVars, cliVars>>

\* What the steps of the coroutine itself leave alone.
aside == <<facade, sanitizerVars, resultVars, pairVars, cliVars>>

SanitizerParked ==
    engineModule = "ok" /\ patch = "parked" /\ raw = <<>> /\ outs = "parked"
ResultParked == present = {} /\ built = "parked"
PairParked == runs = <<>> /\ cells = <<>>
CliParked == cli = "parked"

\* The loop variable before the first event is bound to it.
Unbound == Event(Absent, Absent, Absent, Absent, NoPayload)

Engines == {"openai", "google"}
Callbacks == {"none", "returns", "raises"}
Modes == {"async", "sync"}

Init ==
    /\ inputExists \in BOOLEAN
    /\ engine \in Engines
    /\ settingsValid \in BOOLEAN
    /\ callback \in Callbacks
    /\ pc = "start"
    /\ settings = "unbuilt"
    /\ streamState = "unopened"
    /\ streamExc = "none"
    /\ releases = 0
    /\ emitted = <<>>
    /\ event = Unbound
    /\ result = NoneValue
    /\ calls = <<>>
    /\ completed = 0
    /\ log = <<>>
    /\ outcome = Running
    /\ \/ mode = "async" /\ loopRunning = TRUE
       \/ mode = "sync" /\ loopRunning \in BOOLEAN
    /\ facade = Running
    /\ SanitizerParked
    /\ ResultParked
    /\ PairParked
    /\ CliParked

\* The call up to the async for statement: the input check, the settings,
\* their validation, three log lines, result = None and the stream requested.
Start ==
    /\ pc = "start"
    /\ mode = "sync" => ~loopRunning
    /\ LET p == Preflight(inputExists, engine, settingsValid) IN
        /\ settings' = p.settings
        /\ IF p.exc # "none"
           THEN /\ outcome' = Raised(p.exc)
                /\ pc' = "done"
                /\ UNCHANGED <<streamState, log>>
           ELSE /\ streamState' = "open"
                /\ pc' = "await"
                /\ log' = <<"INFO start", "INFO output", "INFO languages">>
                /\ UNCHANGED outcome
    /\ UNCHANGED <<inputs, aside, streamExc, releases, emitted, event, result, calls,
                   completed>>

\* The stream yields its next event to the suspended loop.
StreamYield(e) ==
    /\ pc = "await"
    /\ Len(emitted) < MaxEvents
    /\ emitted' = Append(emitted, e)
    /\ event' = e
    /\ pc' = "dispatch"
    /\ UNCHANGED <<inputs, aside, settings, streamState, streamExc, releases, result,
                   calls, completed, log, outcome>>

\* The stream ends (StopAsyncIteration): the loop is left and result returned.
StreamEnd ==
    /\ pc = "await"
    /\ streamState' = "exhausted"
    /\ releases' = releases + 1
    /\ outcome' = ReturnResult(result)
    /\ pc' = "done"
    /\ UNCHANGED <<inputs, aside, settings, streamExc, emitted, event, result, calls,
                   completed, log>>

\* The stream raises from __anext__: the except clause logs and re-raises.
StreamRaise(x) ==
    /\ pc = "await"
    /\ streamState' = "raised"
    /\ streamExc' = x
    /\ releases' = releases + 1
    /\ outcome' = ExceptHandler(x, result)
    /\ log' = Append(log, "ERROR failed")
    /\ pc' = "done"
    /\ UNCHANGED <<inputs, aside, settings, emitted, event, result, calls, completed>>

\* The task is cancelled while it awaits the next event: CancelledError is
\* thrown into the stream and leaves the call (except Exception lets it by).
\* translate_pdf hands out no task that a caller could cancel.
Cancel ==
    /\ pc = "await"
    /\ mode = "async"
    /\ streamState' = "cancelled"
    /\ releases' = releases + 1
    /\ outcome' = OnCancelled(result)
    /\ pc' = "done"
    /\ UNCHANGED <<inputs, aside, settings, streamExc, emitted, event, result, calls,
                   completed, log>>

\* The loop body for the current event, up to the invocation of the callback
\* when there is one; an exception raised by the body goes to the except
\* clause and leaves the stream as it is.
Dispatch ==
    /\ pc = "dispatch"
    /\ LET b == Body(event, callback, result) IN
        IF b.forwarded
        THEN /\ calls' = Append(calls, event)
             /\ log' = log \o b.logs
             /\ pc' = "callback"
             /\ UNCHANGED <<result, outcome>>
        ELSE IF b.exc # "none"
        THEN /\ result' = b.result
             /\ outcome' = ExceptHandler(b.exc, b.result)
             /\ log' = log \o b.logs \o <<"ERROR failed">>
             /\ pc' = "done"
             /\ UNCHANGED calls
        ELSE /\ result' = b.result
             /\ log' = log \o b.logs
             /\ pc' = "await"
             /\ UNCHANGED <<calls, outcome>>
    /\ UNCHANGED <<inputs, aside, settings, streamState, streamExc, releases, emitted,
                   event, completed>>

\* progress_callback(event) returns: the loop asks for the next event.
CallbackReturn ==
    /\ pc = "callback"
    /\ Body(event, callback, result).exc = "none"
    /\ completed' = completed + 1
    /\ pc' = "await"
    /\ UNCHANGED <<inputs, aside, settings, streamState, streamExc, releases, emitted,
                   event, result, calls, log, outcome>>

\* progress_callback(event) raises: the except clause logs and re-raises.
CallbackRaise ==
    /\ pc = "callback"
    /\ Body(event, callback, result).exc # "none"
    /\ completed' = completed + 1
    /\ outcome' = ExceptHandler(Body(event, callback, result).exc, result)
    /\ log' = Append(log, "ERROR failed")
    /\ pc' = "done"
    /\ UNCHANGED <<inputs, aside, settings, streamState, streamExc, releases, emitted,
                   event, result, calls>>

\* translate_pdf called while an event loop runs: asyncio.run raises
\* RuntimeError and the coroutine never starts.
RunRefused ==
    /\ pc = "start"
    /\ mode = "sync"
    /\ loopRunning
    /\ facade = Running
    /\ facade' = TranslatePdf(loopRunning, outcome)
    /\ UNCHANGED <<inputs, pc, settings, streamState, streamExc, releases, emitted,
                   event, result, calls, completed, log, outcome,
                   sanitizerVars, resultVars, pairVars, cliVars>>

\* How asyncio.run ends a stream the coroutine left open: the aclose() that
\* was scheduled when the iterator was dropped is cancelled with the loop
\* (CancelledError is thrown into the stream), or, when the engine still holds
\* the generator, shutdown_asyncgens closes it (GeneratorExit).
ShutdownEndings == {"cancelled", "closed"}

\* The coroutine has ended under asyncio.run: the loop is shut down, which
\* ends a stream left open in one of these two ways, and translate_pdf returns
\* or raises what the coroutine did.
RunComplete ==
    /\ pc = "done"
    /\ mode = "sync"
    /\ outcome # Running
    /\ facade = Running
    /\ facade' = TranslatePdf(loopRunning, outcome)
    /\ IF streamState = "open"
       THEN /\ streamState' \in ShutdownEndings
            /\ releases' = releases + 1
       ELSE UNCHANGED <<streamState, releases>>
    /\ UNCHANGED <<inputs, pc, settings, streamExc, emitted, event, result,
                   calls, completed, log, outcome, sanitizerVars, resultVars,
                   pairVars, cliVars>>

Next ==
    \/ Start
    \/ RunRefused
    \/ RunComplete
    \/ \E e \in Events : StreamYield(e)
    \/ StreamEnd
    \/ \E x \in StreamErrors : StreamRaise(x)
    \/ Cancel
    \/ Dispatch
    \/ CallbackReturn
    \/ CallbackRaise

Spec == Init /\ [][Next]_vars

TypeOK ==
    /\ inputExists \in BOOLEAN
    /\ engine \in Engines
    /\ settingsValid \in BOOLEAN
    /\ callback \in Callbacks
    /\ pc \in {"start", "await", "dispatch", "callback", "done"}
    /\ settings \in {"unbuilt", "built"}
    /\ streamState \in
         {"unopened", "open", "exhausted", "raised", "cancelled", "closed"}
    /\ mode \in Modes
    /\ loopRunning \in BOOLEAN
    /\ facade.kind \in {"running", "returned", "raised"}
    /\ streamExc \in StreamErrors \cup {"none"}
    /\ releases \in 0..1
    /\ emitted \in Seq(Events) /\ Len(emitted) <= MaxEvents
    /\ event \in Events \cup {Unbound}
    /\ result.kind \in {"None", "TranslationResult"}
    /\ Len(calls) <= Len(emitted)
    /\ completed \in 0..Len(calls)
    /\ outcome.kind \in {"running", "returned", "raised"}

----------------------------------------------------------------------------
(* The same loop as a function of the whole stream                         *)

RECURSIVE LoopOver(_, _, _)
\* The async for loop over the events evs from result = res: the exception
\* that ends it ("none" when every event was handled), the value of result
\* (assigned by a finish event even when logging it then raises) and the
\* events progress_callback was invoked with.
LoopOver(evs, cb, res) ==
    IF evs = <<>> THEN [exc |-> "none", result |-> res, calls |-> <<>>]
    ELSE LET b == Body(Head(evs), cb, res)
             seen == IF b.forwarded THEN <<Head(evs)>> ELSE <<>>
             rest == LoopOver(Tail(evs), cb, b.result)
         IN
         IF b.exc # "none"
         THEN [exc |-> b.exc, result |-> b.result, calls |-> seen]
         ELSE [exc |-> rest.exc, result |-> rest.result,
               calls |-> seen \o rest.calls]

\* How the call ends on the events evs when the stream then ends as ending
\* says (with the exception sexc when it raised).
CallOutcome(evs, cb, ending, sexc) ==
    LET l == LoopOver(evs, cb, NoneValue) IN
    IF l.exc # "none" THEN ExceptHandler(l.exc, l.result)
    ELSE IF ending = "exhausted" THEN ReturnResult(l.result)
    ELSE IF ending = "raised" THEN ExceptHandler(sexc, l.result)
    ELSE IF ending = "cancelled" THEN OnCancelled(l.result)
    ELSE Running

----------------------------------------------------------------------------
(* Properties                                                              *)

Last(s) == s[Len(s)]
Front(s) == SubSeq(s, 1, Len(s) - 1)

NotError(e) == ~IsError(e)
WithoutErrors(evs) == SelectSeq(evs, NotError)

\* A ProgressUpdate of the data model: its progress fields are numbers (or
\* left out, which reads as 0).
IsNumericProgress(e) ==
    /\ IsProgressUpdate(e)
    /\ GetOrZero(e.stage_progress) \in Numbers
    /\ GetOrZero(e.overall_progress) \in Numbers

\* The events whose dispatch has started running the loop body to its end:
\* all emitted ones but the one that is still waiting to be dispatched.
Dispatched == IF pc = "dispatch" THEN Front(emitted) ELSE emitted

\* C1: a stream that ends cleanly without a Finish event makes the call fail
\* with IncompleteRun; it never returns normally.
C1_NoFinishIsIncompleteRun ==
    (streamState = "exhausted" /\ \A i \in 1..Len(emitted) : ~IsFinish(emitted[i]))
        => (outcome.kind = "raised" /\ outcome.exc = "IncompleteRun")

\* C2: once a Finish event has been processed, no later step invokes the
\* observer or changes the captured Result.
C2_EventsAfterFinishIgnored ==
    [][result.kind = "TranslationResult" => (calls' = calls /\ result' = result)]_vars

\* C3: with a callback supplied, every Error event handled so far has been
\* delivered to the observer exactly once.
C3_ErrorObservedOnce ==
    (callback # "none" /\ pc \in {"await", "done"})
        => Len(SelectSeq(calls, IsError)) = Len(SelectSeq(Dispatched, IsError))

\* C4: the call ends exactly as it does on the same stream with the Error
\* events removed, and handling an Error event never ends the iteration: after
\* an Error event the call can only end by the stream ending, raising or
\* being cancelled.
C4_ErrorsNeverChangeOutcome ==
    /\ (pc = "done" /\ streamState # "unopened")
         => outcome = CallOutcome(WithoutErrors(emitted), callback, streamState,
                                  streamExc)
    /\ (emitted # <<>> /\ IsError(Last(emitted)))
         => /\ pc \in {"dispatch", "await", "done"}
            /\ pc = "done" => streamState \in {"exhausted", "raised", "cancelled"}

C4_Witness ==
    /\ pc = "done"
    /\ Len(emitted) = 3
    /\ IsError(emitted[1])
    /\ IsProgressUpdate(emitted[2])
    /\ emitted[3] = Finish(RecordFull)
    /\ Len(calls) = 1
    /\ outcome = Returned(TranslationResult(RecordFull))

\* The call was cancelled: CancelledError was thrown into the stream of an
\* awaited call (under translate_pdf the stream gets it only from the shutdown
\* of the loop, after the call has ended).
CallCancelled == mode = "async" /\ streamState = "cancelled"

\* C5: when the call has ended on a stream whose last event is a Finish with
\* a payload, without the stream raising or being cancelled, it has returned a
\* TranslationResult whose eight fields are those of that payload; a field the
\* payload lacks is None for a path and 0 for seconds and memory.
C5_ResultMatchesLastFinish ==
    (/\ pc = "done"
     /\ ~CallCancelled
     /\ streamState # "raised"
     /\ emitted # <<>>
     /\ IsFinish(Last(emitted))
     /\ Last(emitted).translate_result.shape # Absent)
        => /\ outcome.kind = "returned"
           /\ outcome.value.kind = "TranslationResult"
           /\ \A f \in Fields :
                outcome.value.attrs[f] =
                    IF Last(emitted).translate_result.attrs[f] # Absent
                    THEN Last(emitted).translate_result.attrs[f]
                    ELSE IF f \in PathFields THEN None ELSE "0.0"

\* C6: when the stream raises, also after a Finish was processed, the call
\* has ended with that very exception and without a Result, and the step in
\* which the stream raises dispatches no event and invokes no observer.
C6_StreamRaisePropagates ==
    /\ [](streamState = "raised"
            => /\ pc = "done"
               /\ streamExc \in StreamErrors
               /\ outcome.kind = "raised"
               /\ outcome.exc = streamExc
               /\ outcome.value = NoneValue
               /\ completed = Len(calls))
    /\ [][streamState' = "raised"
            => (emitted' = emitted /\ calls' = calls /\ completed' = completed)]_vars

C6_Witness ==
    /\ streamState = "raised"
    /\ result = TranslationResult(RecordFull)
    /\ Len(emitted) = 2
    /\ IsProgressUpdate(emitted[1])
    /\ Len(calls) = 1
    /\ outcome = Raised("ConnectionError")

\* C7: when the input path does not exist the call fails with
\* FileNotFoundError before anything else: no settings are built, the stream
\* is not requested, no event is consumed and the observer is not invoked.
C7_MissingInputFailsFirst ==
    (~inputExists /\ pc # "start")
        => /\ pc = "done"
           /\ outcome = Raised("FileNotFoundError")
           /\ settings = "unbuilt"
           /\ streamState = "unopened"
           /\ emitted = <<>>
           /\ calls = <<>>

C7_Witness ==
    /\ ~inputExists
    /\ engine = "openai"
    /\ settingsValid
    /\ callback = "returns"
    /\ outcome = Raised("FileNotFoundError")

\* The exceptions that report an invalid configuration.
InvalidConfig == {"ValueError", "ValidationError"}

\* C8: with an unsupported engine, or settings that validation rejects, the
\* call fails before the stream is requested: no event is consumed and the
\* observer is not invoked; the failure is InvalidConfig (when the input
\* exists, which is checked first).
C8_InvalidConfigFailsBeforeStreaming ==
    ((engine # "openai" \/ ~settingsValid) /\ pc # "start")
        => /\ pc = "done"
           /\ outcome.kind = "raised"
           /\ inputExists => outcome.exc \in InvalidConfig
           /\ streamState = "unopened"
           /\ emitted = <<>>
           /\ calls = <<>>

C8_Witness ==
    /\ inputExists
    /\ engine = "google"
    /\ callback = "returns"
    /\ pc = "done"
    /\ outcome = Raised("ValueError")

\* C9: the observer has been invoked with exactly the ProgressUpdate events
\* dispatched so far, in emission order and once each (never, without a
\* callback); every invocation has ended when the next event is requested, and
\* at most one is running.
C9_ProgressForwardedInOrder ==
    /\ calls = IF callback = "none" THEN <<>>
               ELSE SelectSeq(Dispatched, IsNumericProgress)
    /\ pc = "await" => completed = Len(calls)
    /\ completed = IF pc = "callback" THEN Len(calls) - 1 ELSE Len(calls)

C9_Witness ==
    /\ pc = "await"
    /\ emitted = <<Progress("50.0", "12.5"), ErrorEvent, Progress("10.0", "0")>>
    /\ calls = <<Progress("50.0", "12.5"), Progress("10.0", "0")>>
    /\ completed = 2

\* C10: on every exit of the call after the stream was requested, the stream
\* has been released exactly once.
C10_StreamReleasedExactlyOnce ==
    (pc = "done" /\ streamState # "unopened") => releases = 1

----------------------------------------------------------------------------
(* Cancellation and the blocking facade                                    *)

\* C11: when the call is cancelled while it awaits the next event, it ends
\* with CancelledError, never by returning a Result or None, and the step of
\* the cancellation dispatches no event and invokes no observer.
C11_CancellationSurfaces ==
    /\ [](CallCancelled
            => /\ pc = "done"
               /\ outcome.kind = "raised"
               /\ outcome.exc = "CancelledError"
               /\ completed = Len(calls))
    /\ [][CallCancelled'
            => (pc = "await" /\ emitted' = emitted /\ calls' = calls)]_vars

C11_Witness ==
    /\ CallCancelled
    /\ Len(emitted) = 2
    /\ result = TranslationResult(RecordFull)
    /\ outcome = Raised("CancelledError")

\* How translate_pdf_async ends, and the observer invocations it makes, on the
\* inputs of this run and the events the stream emitted.
AsyncOutcome ==
    IF Preflight(inputExists, engine, settingsValid).exc # "none"
    THEN Raised(Preflight(inputExists, engine, settingsValid).exc)
    ELSE CallOutcome(emitted, callback, streamState, streamExc)

AsyncCalls ==
    IF Preflight(inputExists, engine, settingsValid).exc # "none" THEN <<>>
    ELSE LoopOver(emitted, callback, NoneValue).calls

\* C12: translate_pdf, called where no event loop is running, ends exactly as
\* translate_pdf_async does on the same input, configuration and stream (the
\* same Result, or the same failure), with the same observer invocations.
C12_FacadeSameOutcome ==
    (mode = "sync" /\ ~loopRunning /\ facade # Running)
        => /\ facade = AsyncOutcome
           /\ calls = AsyncCalls

C12_Witness ==
    /\ mode = "sync"
    /\ facade = Returned(TranslationResult(DictPartial))
    /\ Len(emitted) = 3
    /\ Len(calls) = 2

----------------------------------------------------------------------------
(* The sanitizer: clean_json_output and the patch of the engine            *)

\* Most pieces a text given to the sanitizer is made of.
MaxTokens == 3

\* A text is the sequence of the code points of its characters.
JsonTag == <<60, 106, 115, 111, 110, 62>>
JsonEndTag == <<60, 47, 106, 115, 111, 110, 62>>
FenceJson == <<96, 96, 96, 106, 115, 111, 110>>
Fence == <<96, 96, 96>>

\* The pieces: space, line feed, tab, carriage return, SOH, vertical tab, x,
\* e with acute accent, the four wrapper marks, and the braces.
Tokens ==
    {<<32>>, <<10>>, <<9>>, <<13>>, <<1>>, <<11>>, <<120>>, <<233>>,
     JsonTag, JsonEndTag, FenceJson, Fence, <<123>>, <<125>>}

RECURSIVE TokenStrings(_)
TokenStrings(n) ==
    IF n = 0 THEN {<<>>}
    ELSE LET shorter == TokenStrings(n - 1) IN
         shorter \cup {t \o u : t \in Tokens, u \in shorter}

Texts == TokenStrings(MaxTokens)

\* The characters str.strip() removes: str.isspace(), up to U+00FF.
IsSpace(c) == c \in {9, 10, 11, 12, 13, 28, 29, 30, 31, 32, 133, 160}

RECURSIVE LStrip(_)
LStrip(t) ==
    IF t # <<>> /\ IsSpace(Head(t)) THEN LStrip(Tail(t)) ELSE t

RECURSIVE RStrip(_)
RStrip(t) ==
    IF t # <<>> /\ IsSpace(t[Len(t)]) THEN RStrip(SubSeq(t, 1, Len(t) - 1))
    ELSE t

\* str.strip()
Strip(t) == RStrip(LStrip(t))

\* str.startswith / str.endswith
StartsWith(t, prefix) ==
    Len(t) >= Len(prefix) /\ SubSeq(t, 1, Len(prefix)) = prefix
EndsWith(t, suffix) ==
    Len(t) >= Len(suffix) /\ SubSeq(t, Len(t) - Len(suffix) + 1, Len(t)) = suffix

\* t[n:] and t[:-n]
DropFirst(t, n) == SubSeq(t, n + 1, Len(t))
DropLast(t, n) == SubSeq(t, 1, Len(t) - n)

\* Variants of KeepChar: every character is kept; the tab is removed too.
KeepChar_KeepsAll(c) == TRUE
KeepChar_DropsTab(c) == c >= 32 \/ c \in {10, 13}

\* ord(char) >= 32 or char in '\n\t\r'
KeepChar(c) == c >= 32 \/ c \in {10, 9, 13}

\* ''.join(char for char in output if ...)
RemoveControl(t) == SelectSeq(t, KeepChar)

\* Variant of StripWrappers: the closing </json> is left in place.
StripWrappers_NoEndTag(t) ==
    LET a == Strip(t)
        b == IF StartsWith(a, JsonTag) THEN DropFirst(a, 6) ELSE a
        d == IF StartsWith(b, FenceJson) THEN DropFirst(b, 7) ELSE b
        e == IF StartsWith(d, Fence) THEN DropFirst(d, 3) ELSE d
    IN IF EndsWith(e, Fence) THEN DropLast(e, 3) ELSE e

\* clean_json_output up to the removal of the control characters: strip(),
\* then the five wrapper marks, each tested on the text as it is by then.
StripWrappers(t) ==
    LET a == Strip(t)
        b == IF StartsWith(a, JsonTag) THEN DropFirst(a, 6) ELSE a
        c == IF EndsWith(b, JsonEndTag) THEN DropLast(b, 7) ELSE b
        d == IF StartsWith(c, FenceJson) THEN DropFirst(c, 7) ELSE c
        e == IF StartsWith(d, Fence) THEN DropFirst(d, 3) ELSE d
    IN IF EndsWith(e, Fence) THEN DropLast(e, 3) ELSE e

\* The arguments of a call: a str, None, or an object that is no str.
Str(t) == [kind |-> "str", chars |-> t]
NoneArg == [kind |-> "None", chars |-> <<>>]
Receiver == [kind |-> "object", chars |-> <<>>]

\* Variant of SelectOutput: the first argument is always taken as the text.
SelectOutput_AlwaysFirst(selfOrOutput, llmOutput) == selfOrOutput

\* The two call shapes of clean_json_output: the text is the first argument
\* when llm_output is None, else the second.
SelectOutput(selfOrOutput, llmOutput) ==
    IF llmOutput.kind = "None" THEN selfOrOutput ELSE llmOutput

\* clean_json_output(self_or_output, llm_output)
CleanJsonOutput(selfOrOutput, llmOutput) ==
    Strip(RemoveControl(StripWrappers(SelectOutput(selfOrOutput, llmOutput).chars)))

\* patched_clean_json_output(self, llm_output), the method the patch installs.
PatchedCleanJsonOutput(self, llmOutput) ==
    LET a == Strip(llmOutput.chars)
        b == IF StartsWith(a, JsonTag) THEN DropFirst(a, 6) ELSE a
        c == IF EndsWith(b, JsonEndTag) THEN DropLast(b, 7) ELSE b
        d == IF StartsWith(c, FenceJson) THEN DropFirst(c, 7) ELSE c
        e == IF StartsWith(d, Fence) THEN DropFirst(d, 3) ELSE d
        f == IF EndsWith(e, Fence) THEN DropLast(e, 3) ELSE e
    IN Strip(SelectSeq(f, KeepChar))

\* What importing the engine's module and reading the method can find: all
\* there, the module missing (ImportError), the import raising another
\* exception, the class missing or the method missing (AttributeError).
EngineModules == {"ok", "ImportError", "ImportRaises", "NoClass", "NoMethod"}

\* The engine's _clean_json_output before the patch is applied.
NativeMethod(env) == IF env = "ok" THEN "native" ELSE "absent"

PatchDone(installed, warnings, raised, method) ==
    [attempted |-> TRUE, installed |-> installed, warnings |-> warnings,
     raised |-> raised, method |-> method]

NotAttempted ==
    [attempted |-> FALSE, installed |-> FALSE, warnings |-> 0,
     raised |-> "none", method |-> "absent"]

\* Variant of ApplyBabeldocPatch: only ImportError is caught.
ApplyBabeldocPatch_OnlyImportError(env) ==
    IF env = "ok" THEN PatchDone(TRUE, 0, "none", "patched")
    ELSE IF env = "ImportError"
    THEN PatchDone(FALSE, 1, "none", NativeMethod(env))
    ELSE IF env = "ImportRaises"
    THEN PatchDone(FALSE, 0, "RuntimeError", NativeMethod(env))
    ELSE PatchDone(FALSE, 0, "AttributeError", NativeMethod(env))

\* _apply_babeldoc_patch: the import and the read of the original method may
\* raise; ImportError and any other Exception are caught and logged as one
\* warning; otherwise the method is replaced.
ApplyBabeldocPatch(env) ==
    IF env = "ok" THEN PatchDone(TRUE, 0, "none", "patched")
    ELSE PatchDone(FALSE, 1, "none", NativeMethod(env))

NotCalled ==
    [called |-> FALSE, free |-> <<>>, bound |-> <<>>, viaPatch |-> FALSE,
     patched |-> <<>>, twice |-> <<>>, tag |-> <<>>, fenceJson |-> <<>>,
     fence |-> <<>>]

SanitizerInit ==
    /\ engineModule \in EngineModules
    /\ patch = NotAttempted
    /\ raw = <<>>
    /\ outs = NotCalled
    /\ inputExists = FALSE /\ engine = "openai" /\ settingsValid = FALSE
    /\ callback = "none" /\ mode = "async" /\ loopRunning = FALSE
    /\ pc = "parked" /\ settings = "unbuilt" /\ streamState = "unopened"
    /\ streamExc = "none" /\ releases = 0 /\ emitted = <<>> /\ event = Unbound
    /\ result = NoneValue /\ calls = <<>> /\ completed = 0 /\ log = <<>>
    /\ outcome = Running /\ facade = Running
    /\ ResultParked
    /\ PairParked
    /\ CliParked

\* The module is loaded: _apply_babeldoc_patch() runs once.
ApplyPatch ==
    /\ ~patch.attempted
    /\ patch.raised = "none"
    /\ patch' = ApplyBabeldocPatch(engineModule)
    /\ UNCHANGED <<engineModule, raw, outs, callVars, cliVars, resultVars, pairVars>>

\* The value of every call made on the text t.
Cleaned(t, installed) ==
    [called |-> TRUE,
     free |-> CleanJsonOutput(Str(t), NoneArg),
     bound |-> CleanJsonOutput(Receiver, Str(t)),
     viaPatch |-> installed,
     patched |-> IF installed
                 THEN PatchedCleanJsonOutput(Receiver, Str(t)) ELSE <<>>,
     twice |-> CleanJsonOutput(Str(CleanJsonOutput(Str(t), NoneArg)), NoneArg),
     tag |-> CleanJsonOutput(Str(JsonTag \o t \o JsonEndTag), NoneArg),
     fenceJson |->
        CleanJsonOutput(Str(FenceJson \o <<10>> \o t \o <<10>> \o Fence), NoneArg),
     fence |-> CleanJsonOutput(Str(Fence \o t \o Fence), NoneArg)]

\* After the module is loaded, a text is cleaned: by the function in both
\* call shapes, by the installed method when there is one, once more on the
\* function's own output, and in the three wrappings of the text.
Sanitize ==
    /\ patch.attempted
    /\ patch.raised = "none"
    /\ ~outs.called
    /\ \E t \in Texts :
        /\ raw' = t
        /\ outs' = Cleaned(t, patch.installed)
    /\ UNCHANGED <<engineModule, patch, callVars, cliVars, resultVars, pairVars>>

SanitizerNext ==
    \/ ApplyPatch
    \/ Sanitize

SanitizerSpec == SanitizerInit /\ [][SanitizerNext]_vars

SanitizerTypeOK ==
    /\ engineModule \in EngineModules
    /\ patch.attempted \in BOOLEAN
    /\ raw \in Seq(Nat)
    /\ outs.called \in BOOLEAN
    /\ outs.called => outs.free \in Seq(Nat)

----------------------------------------------------------------------------
(* Properties of the sanitizer and of the patch                            *)

\* A character the sanitizer must delete: a control character that is not
\* tab, line feed or carriage return.
Disallowed(c) == c \in 0..31 /\ c \notin {9, 10, 13}
Retained(c) == ~Disallowed(c)

\* The occurrences of the character c in the text t.
Count(c, t) == Cardinality({i \in DOMAIN t : t[i] = c})

\* The positions of t that hold a retained character that is no whitespace.
Solid(t) == {i \in DOMAIN t : Retained(t[i]) /\ ~IsSpace(t[i])}

\* The part of t from its first to its last such position.
Interior(t) ==
    IF Solid(t) = {} THEN <<>>
    ELSE SubSeq(t, CHOOSE i \in Solid(t) : \A j \in Solid(t) : i <= j,
                   CHOOSE i \in Solid(t) : \A j \in Solid(t) : j <= i)

\* A text that starts with a brace or bracket, ends with one, and has no
\* disallowed character.
JsonShaped(t) ==
    /\ t # <<>>
    /\ Head(t) \in {91, 123}
    /\ t[Len(t)] \in {93, 125}
    /\ \A i \in DOMAIN t : Retained(t[i])

\* C13: cleaning is idempotent: cleaning the output of clean_json_output
\* again gives the same text.
C13_Idempotent == outs.called => outs.twice = outs.free

\* C14 as stated: the output has no disallowed control character and is the
\* trimmed, wrapper-stripped input with only the disallowed characters
\* deleted.
C14_OnlyDisallowedDeleted ==
    outs.called =>
        /\ \A i \in DOMAIN outs.free : Retained(outs.free[i])
        /\ outs.free = SelectSeq(Strip(StripWrappers(raw)), Retained)

\* C14, amended: the output has no disallowed control character and is the
\* wrapper-stripped input with only the disallowed characters deleted and the
\* whitespace then at its two ends trimmed; every other character is
\* retained in order.
C14_DeletedThenTrimmed ==
    outs.called =>
        /\ \A i \in DOMAIN outs.free : Retained(outs.free[i])
        /\ outs.free = SelectSeq(Interior(StripWrappers(raw)), Retained)

\* A control character is deleted between two retained characters, the second
\* of them non-ASCII, and the two are joined.
C14_Witness ==
    /\ outs.called
    /\ raw = <<120, 1, 233>>
    /\ outs.free = <<120, 233>>

\* C15 as stated: every tab, line feed and carriage return of the input is
\* still in the output.
C15_WhitespaceControlsSurvive ==
    outs.called => \A c \in {9, 10, 13} : Count(c, outs.free) = Count(c, raw)

\* C15, amended: every tab, line feed and carriage return lying between the
\* first and the last non-whitespace retained character of the
\* wrapper-stripped input is still in the output, and the output holds no
\* other.
C15_InnerWhitespaceControlsSurvive ==
    outs.called =>
        \A c \in {9, 10, 13} :
            Count(c, outs.free) = Count(c, Interior(StripWrappers(raw)))

\* A tab between two ordinary characters survives.
C15_Witness ==
    /\ outs.called
    /\ raw = <<120, 9, 120>>
    /\ Count(9, outs.free) = 1

\* C16: for a JSON-shaped text X, cleaning <json>X</json>, ```json\nX\n``` and
\* ```X``` gives X, and cleaning X gives X.
C16_WrappersReduceToText ==
    (outs.called /\ JsonShaped(raw)) =>
        /\ outs.tag = raw
        /\ outs.fenceJson = raw
        /\ outs.fence = raw
        /\ outs.free = raw

\* A JSON-shaped text is recovered from its fenced wrapping.
C16_Witness ==
    /\ outs.called
    /\ raw = <<123, 120, 125>>
    /\ outs.fenceJson = raw
    /\ outs.tag = raw

\* C17: the free call, the call with a receiver and the installed method give
\* the same text.
C17_CallShapesAgree ==
    outs.called =>
        /\ outs.free = outs.bound
        /\ outs.viaPatch => outs.patched = outs.free

\* The three calls are made on a wrapped text with a control character, and
\* they change it.
C17_Witness ==
    /\ outs.called
    /\ outs.viaPatch
    /\ raw = JsonTag \o <<1>> \o <<123>>
    /\ outs.patched = <<123>>
    /\ outs.bound = <<123>>

\* C18: applying the patch never raises; when the module, the class or the
\* method is missing or the import fails otherwise, nothing is installed, one
\* warning is logged and the engine's method is as it was.
C18_PatchNeverRaises ==
    patch.attempted =>
        /\ patch.raised = "none"
        /\ engineModule # "ok" =>
            /\ ~patch.installed
            /\ patch.warnings = 1
            /\ patch.method = NativeMethod(engineModule)
        /\ engineModule = "ok" => patch.installed /\ patch.method = "patched"

\* The method is missing, the patch is skipped, and the module is in use.
C18_Witness ==
    /\ engineModule = "NoMethod"
    /\ patch.attempted
    /\ ~patch.installed
    /\ outs.called

----------------------------------------------------------------------------
(* TranslationResult built from the two shapes of payload                  *)

\* The value a payload carries for the field f.
FieldValue(f) ==
    IF f = "total_seconds" THEN "12.5"
    ELSE IF f = "peak_memory_usage" THEN "256.0"
    ELSE "/out/" \o f

\* The payload of the given shape that has exactly the fields fs.
Carrying(shape, fs) ==
    Payload(shape, [f \in Fields |-> IF f \in fs THEN FieldValue(f) ELSE Absent])

\* TranslationResult(result_data): the new object, or AttributeError.
Construct(p) ==
    IF TranslationResultRaises(p) THEN Raised("AttributeError")
    ELSE Returned(TranslationResult(p))

NotBuilt == [record |-> Running, mapping |-> Running]

ResultInit ==
    /\ present \in SUBSET Fields
    /\ built = NotBuilt
    /\ inputExists = FALSE /\ engine = "openai" /\ settingsValid = FALSE
    /\ callback = "none" /\ mode = "async" /\ loopRunning = FALSE
    /\ pc = "parked" /\ settings = "unbuilt" /\ streamState = "unopened"
    /\ streamExc = "none" /\ releases = 0 /\ emitted = <<>> /\ event = Unbound
    /\ result = NoneValue /\ calls = <<>> /\ completed = 0 /\ log = <<>>
    /\ outcome = Running /\ facade = Running
    /\ SanitizerParked
    /\ PairParked
    /\ CliParked

\* TranslationResult(r) for an object r with the attributes in present.
BuildFromRecord ==
    /\ built.record = Running
    /\ built' = [built EXCEPT !.record = Construct(Carrying("object", present))]
    /\ UNCHANGED <<present, callVars, cliVars, sanitizerVars, pairVars>>

\* TranslationResult(d) for a dict d with the keys in present.
BuildFromMapping ==
    /\ built.mapping = Running
    /\ built' = [built EXCEPT !.mapping = Construct(Carrying("dict", present))]
    /\ UNCHANGED <<present, callVars, cliVars, sanitizerVars, pairVars>>

ResultNext == BuildFromRecord \/ BuildFromMapping

ResultSpec == ResultInit /\ [][ResultNext]_vars

\* C19: for every set of present fields, the record and the mapping carrying
\* the same values give the same TranslationResult, without raising, each
\* absent field being None (a path) or 0.0 (seconds, memory).
C19_ShapesAgree ==
    (built.record # Running /\ built.mapping # Running) =>
        /\ built.record.kind = "returned"
        /\ built.mapping.kind = "returned"
        /\ built.record = built.mapping
        /\ \A f \in Fields :
            built.record.value.attrs[f] =
                IF f \in present THEN FieldValue(f)
                ELSE IF f \in NumberFields THEN "0.0" ELSE None

----------------------------------------------------------------------------
(* Two calls of translate_pdf_async as tasks of one event loop             *)

\* Most events delivered to each of the two calls.
MaxPairEvents == 2

RunIds == {1, 2}

\* The events the two streams deliver.
PairEvents == {Progress("10.0", "50.0"), Finish(RecordFull), Finish(DictPartial)}

\* Variant of ResultCell: the result is kept in one place for all calls.
ResultCell_Shared(r) == 1

\* Where the call r keeps result: a local variable, one per call.
ResultCell(r) == r

\* A call that has not started, on a document that exists or not, with its
\* own progress_callback.
NewRun(exists, cb) ==
    [pc |-> "start", exists |-> exists, cb |-> cb, emitted |-> <<>>,
     calls |-> <<>>, ending |-> "open", sexc |-> "none", outcome |-> Running]

PairInit ==
    /\ engine \in Engines
    /\ settingsValid = TRUE
    /\ runs \in [RunIds -> {NewRun(x, cb) : x \in BOOLEAN, cb \in {"returns", "raises"}}]
    /\ cells = [c \in RunIds |-> NoneValue]
    /\ inputExists = FALSE
    /\ callback = "none" /\ mode = "async" /\ loopRunning = FALSE
    /\ pc = "parked" /\ settings = "unbuilt" /\ streamState = "unopened"
    /\ streamExc = "none" /\ releases = 0 /\ emitted = <<>> /\ event = Unbound
    /\ result = NoneValue /\ calls = <<>> /\ completed = 0 /\ log = <<>>
    /\ outcome = Running /\ facade = Running
    /\ SanitizerParked
    /\ ResultParked
    /\ CliParked

\* The task of call r runs from its start to its first await: the checks,
\* the settings, result = None, and the request for the first event.
PairStart(r) ==
    /\ runs[r].pc = "start"
    /\ LET pf == Preflight(runs[r].exists, engine, settingsValid) IN
        IF pf.exc # "none"
        THEN /\ runs' = [runs EXCEPT ![r].pc = "done", ![r].outcome = Raised(pf.exc)]
             /\ UNCHANGED cells
        ELSE /\ runs' = [runs EXCEPT ![r].pc = "await"]
             /\ cells' = [cells EXCEPT ![ResultCell(r)] = NoneValue]
    /\ UNCHANGED <<callVars, cliVars, sanitizerVars, resultVars>>

\* The stream of call r yields e: the task runs the loop body, with the call
\* of progress_callback, up to the next await or to the end of the call.
PairDeliver(r, e) ==
    /\ runs[r].pc = "await"
    /\ Len(runs[r].emitted) < MaxPairEvents
    /\ LET b == Body(e, runs[r].cb, cells[ResultCell(r)])
           seen == IF b.forwarded THEN <<e>> ELSE <<>>
       IN
        IF b.exc # "none"
        THEN /\ runs' = [runs EXCEPT ![r].emitted = Append(@, e),
                                     ![r].calls = @ \o seen,
                                     ![r].pc = "done",
                                     ![r].outcome = ExceptHandler(b.exc, b.result)]
             /\ cells' = [cells EXCEPT ![ResultCell(r)] = b.result]
        ELSE /\ runs' = [runs EXCEPT ![r].emitted = Append(@, e),
                                     ![r].calls = @ \o seen]
             /\ cells' = [cells EXCEPT ![ResultCell(r)] = b.result]
    /\ UNCHANGED <<callVars, cliVars, sanitizerVars, resultVars>>

\* The stream of call r ends: the call returns result.
PairStreamEnd(r) ==
    /\ runs[r].pc = "await"
    /\ runs' = [runs EXCEPT ![r].pc = "done", ![r].ending = "exhausted",
                            ![r].outcome = ReturnResult(cells[ResultCell(r)])]
    /\ UNCHANGED <<cells, callVars, cliVars, sanitizerVars, resultVars>>

\* The stream of call r raises x: the except clause logs and re-raises.
PairStreamRaise(r, x) ==
    /\ runs[r].pc = "await"
    /\ runs' = [runs EXCEPT ![r].pc = "done", ![r].ending = "raised",
                            ![r].sexc = x,
                            ![r].outcome = ExceptHandler(x, cells[ResultCell(r)])]
    /\ UNCHANGED <<cells, callVars, cliVars, sanitizerVars, resultVars>>

PairNext ==
    \E r \in RunIds :
        \/ PairStart(r)
        \/ \E e \in PairEvents : PairDeliver(r, e)
        \/ PairStreamEnd(r)
        \/ \E x \in StreamErrors : PairStreamRaise(r, x)

PairSpec == PairInit /\ [][PairNext]_vars

\* How call r ends when it runs alone on its document, its callback and the
\* events its stream delivered.
Alone(r) ==
    LET pf == Preflight(runs[r].exists, engine, settingsValid) IN
    IF pf.exc # "none" THEN Raised(pf.exc)
    ELSE CallOutcome(runs[r].emitted, runs[r].cb, runs[r].ending, runs[r].sexc)

\* The events the callback of call r is invoked with when it runs alone.
AloneCalls(r) ==
    IF Preflight(runs[r].exists, engine, settingsValid).exc # "none" THEN <<>>
    ELSE LoopOver(runs[r].emitted, runs[r].cb, NoneValue).calls

\* C20: with the deliveries of two concurrent calls interleaved in any order,
\* each call ends as it does alone and its callback sees the same events.
C20_RunsIndependent ==
    \A r \in RunIds :
        /\ runs[r].calls = AloneCalls(r)
        /\ runs[r].pc = "done" => runs[r].outcome = Alone(r)

\* Call 2 has returned its own result while call 1, started before and with a
\* result of its own already built, is still waiting for its stream.
C20_Witness ==
    /\ runs[1].pc = "await"
    /\ runs[1].emitted = <<Finish(RecordFull)>>
    /\ runs[2].pc = "done"
    /\ runs[2].emitted = <<Progress("10.0", "50.0"), Finish(DictPartial)>>
    /\ runs[2].outcome = Returned(TranslationResult(DictPartial))
    /\ Len(runs[2].calls) = 1

----------------------------------------------------------------------------
(* main(): a run from the command line                                     *)

\* Most events the stream of the run delivers.
MaxCliEvents == 2

\* --input: not given, naming no file, naming a file.
CliInputs == {"notgiven", "missing", "exists"}

\* --config: a path in a directory that does not exist, a path naming no file
\* in a directory that exists, a file that is no JSON, a file naming another
\* engine than openai, a file validate_settings rejects, a usable file.
CliConfigs == {"nodir", "missing", "malformed", "google", "rejected", "ok"}

\* The events the stream of the run delivers.
CliEvents ==
    {Progress("10.0", "50.0"), NullEvent, ErrorEvent, Finish(RecordFull),
     Finish(NoPayload)}

RECURSIVE EventStrings(_)
EventStrings(n) ==
    IF n = 0 THEN {<<>>}
    ELSE LET shorter == EventStrings(n - 1) IN
         shorter \cup {<<e>> \o u : e \in CliEvents, u \in shorter}

\* How main() leaves: the exit status of the process and the cause.
Exited(status, cause) == [left |-> TRUE, status |-> status, cause |-> cause]
Continues == [left |-> FALSE, status |-> 0, cause |-> "none"]

\* create_example_config(args.config): open(output_path, "w") raises
\* FileNotFoundError when the directory of the path does not exist, which
\* nothing catches; otherwise the example is written and main() returns.
CreateExampleConfig(config) ==
    IF config = "nodir" THEN Exited(1, "FileNotFoundError")
    ELSE Exited(0, "config created")

\* The config file after the checks: the example, which names openai, when
\* create_example_config wrote it over whatever the path held.
ConfigAfterArguments(createConfig, config) ==
    IF createConfig /\ config # "nodir" THEN "example" ELSE config

\* The checks of the arguments: --create-config writes the example and
\* returns; a missing --input, a missing input file and a missing config file
\* each sys.exit(1).
CheckArguments(createConfig, input, config) ==
    IF createConfig THEN CreateExampleConfig(config)
    ELSE IF input = "notgiven" THEN Exited(1, "no input")
    ELSE IF input = "missing" THEN Exited(1, "input missing")
    ELSE IF config \in {"nodir", "missing"} THEN Exited(1, "config missing")
    ELSE Continues

\* PDFTranslator(config_path=args.config), called outside the try: json.load
\* raises on a file that is no JSON, and the interpreter ends with status 1.
ConstructTranslator(config) ==
    IF config = "malformed" THEN Exited(1, "JSONDecodeError") ELSE Continues

\* What the loaded config gives the call.
EngineOf(config) == IF config = "google" THEN "google" ELSE "openai"
ValidOf(config) == config # "rejected"

\* progress_callback of main(): it prints the event and returns.
MainCallback == "returns"

\* translator.translate_pdf(...) on the input file, which exists.
MainTranslate(config, evs, ending, sexc) ==
    LET pf == Preflight(TRUE, EngineOf(config), ValidOf(config)) IN
    TranslatePdf(FALSE,
        IF pf.exc # "none" THEN Raised(pf.exc)
        ELSE CallOutcome(evs, MainCallback, ending, sexc))

\* Variant of Report: a None result is reported as a success.
Report_NoneTolerated(out) ==
    IF out.kind = "raised" THEN Exited(1, out.exc) ELSE Exited(0, "none")

\* The rest of the try block and the except clause: an exception of
\* translate_pdf, and the AttributeError of result.dual_pdf_path on a None
\* result, are caught and end in sys.exit(1); otherwise main() returns.
Report(out) ==
    IF out.kind = "raised" THEN Exited(1, out.exc)
    ELSE IF out.value = NoneValue THEN Exited(1, "AttributeError")
    ELSE Exited(0, "none")

NewCli(createConfig, input, config, evs, ending, sexc) ==
    [pc |-> "arguments", createConfig |-> createConfig, input |-> input,
     config |-> config, events |-> evs, ending |-> ending, sexc |-> sexc,
     translated |-> Running, status |-> 0, cause |-> "none"]

MainInit ==
    /\ cli \in {NewCli(cc, i, c, evs, en.ending, en.sexc) :
                    cc \in BOOLEAN, i \in CliInputs, c \in CliConfigs,
                    evs \in EventStrings(MaxCliEvents),
                    en \in {[ending |-> "exhausted", sexc |-> "none"]} \cup
                           {[ending |-> "raised", sexc |-> x] : x \in StreamErrors}}
    /\ inputExists = FALSE /\ engine = "openai" /\ settingsValid = FALSE
    /\ callback = "none" /\ mode = "async" /\ loopRunning = FALSE
    /\ pc = "parked" /\ settings = "unbuilt" /\ streamState = "unopened"
    /\ streamExc = "none" /\ releases = 0 /\ emitted = <<>> /\ event = Unbound
    /\ result = NoneValue /\ calls = <<>> /\ completed = 0 /\ log = <<>>
    /\ outcome = Running /\ facade = Running
    /\ SanitizerParked
    /\ ResultParked
    /\ PairParked

\* One step of main() from the run c that may leave it: the process exits
\* with x, or main() goes on at next.
MainStep(c, x, next) ==
    IF x.left
    THEN cli' = [c EXCEPT !.pc = "exited", !.status = x.status, !.cause = x.cause]
    ELSE cli' = [c EXCEPT !.pc = next]

\* main() parses and checks its arguments.
MainCheckArguments ==
    /\ cli.pc = "arguments"
    /\ MainStep([cli EXCEPT !.config = ConfigAfterArguments(cli.createConfig, @)],
                CheckArguments(cli.createConfig, cli.input, cli.config), "construct")
    /\ UNCHANGED <<callVars, sanitizerVars, resultVars, pairVars>>

\* main() builds the translator from the config file.
MainConstruct ==
    /\ cli.pc = "construct"
    /\ MainStep(cli, ConstructTranslator(cli.config), "translate")
    /\ UNCHANGED <<callVars, sanitizerVars, resultVars, pairVars>>

\* main() calls translate_pdf, which runs the call to its end.
MainTranslateCall ==
    /\ cli.pc = "translate"
    /\ cli' = [cli EXCEPT !.pc = "report",
                          !.translated =
                              MainTranslate(cli.config, cli.events, cli.ending, cli.sexc)]
    /\ UNCHANGED <<callVars, sanitizerVars, resultVars, pairVars>>

\* main() prints the result, or the failure, and leaves.
MainReport ==
    /\ cli.pc = "report"
    /\ MainStep(cli, Report(cli.translated), "exited")
    /\ UNCHANGED <<callVars, sanitizerVars, resultVars, pairVars>>

MainNext ==
    \/ MainCheckArguments
    \/ MainConstruct
    \/ MainTranslateCall
    \/ MainReport

MainSpec == MainInit /\ [][MainNext]_vars

\* The fatal conditions of a run: the input file is missing, the configuration
\* is invalid, the stream raises, or the stream ends without a finish event.
FatalCondition ==
    \/ cli.input # "exists"
    \/ cli.config # "ok"
    \/ cli.ending = "raised"
    \/ cli.ending = "exhausted" /\ \A i \in DOMAIN cli.events : ~IsFinish(cli.events[i])

\* C21: a run from the command line that meets a fatal condition ends with a
\* non-zero exit status.
C21_FatalExitsNonZero ==
    (cli.pc = "exited" /\ ~cli.createConfig /\ FatalCondition) => cli.status # 0

\* The stream ends without a finish event: translate_pdf returns None and
\* main() exits with status 1.
C21_Witness ==
    /\ cli.pc = "exited"
    /\ cli.input = "exists" /\ cli.config = "ok" /\ ~cli.createConfig
    /\ cli.events = <<Progress("10.0", "50.0")>>
    /\ cli.ending = "exhausted"
    /\ cli.translated = Returned(NoneValue)
    /\ cli.status = 1

----------------------------------------------------------------------------
(* Further properties of the sanitizer                                     *)

\* The text with at most one leading fence removed: the seven characters of
\* ```json when it starts with them, otherwise a bare leading ```.
OneLeadingFenceRemoved(t) ==
    IF StartsWith(t, FenceJson) THEN DropFirst(t, 7)
    ELSE IF StartsWith(t, Fence) THEN DropFirst(t, 3)
    ELSE t

\* The sanitizer with at most one leading fence removed per call.
CleanOneLeadingFence(t) ==
    LET a == Strip(t)
        b == IF StartsWith(a, JsonTag) THEN DropFirst(a, 6) ELSE a
        c == IF EndsWith(b, JsonEndTag) THEN DropLast(b, 7) ELSE b
        d == OneLeadingFenceRemoved(c)
        e == IF EndsWith(d, Fence) THEN DropLast(d, 3) ELSE d
    IN Strip(SelectSeq(e, Retained))

\* C22: clean_json_output removes at most one leading fence per call: after
\* ```json is removed, a ``` that follows it is retained.
C22_AtMostOneLeadingFence ==
    outs.called =>
        /\ outs.free = CleanOneLeadingFence(raw)
        /\ outs.viaPatch => outs.patched = CleanOneLeadingFence(raw)

----------------------------------------------------------------------------
(* Further properties of one call of translate_pdf_async                   *)

\* A null event, an empty event, or an event of none of the three kinds.
Skipped(e) ==
    \/ e.py = "None"
    \/ e.type \notin {"progress_update", "error", "finish"}

\* C23: the loop body on a null, empty or unknown event changes nothing: the
\* result is kept, the callback is not invoked, nothing is logged, the call
\* does not end, and the loop asks for the next event.
C23_SkippedEventsNoEffect ==
    [][(pc = "dispatch" /\ Skipped(event)) =>
            /\ pc' = "await"
            /\ result' = result
            /\ calls' = calls
            /\ completed' = completed
            /\ log' = log
            /\ outcome' = outcome
            /\ streamState' = streamState]_vars

\* An empty event after a finish was skipped, and the next event was handled.
C23_Witness ==
    /\ emitted = <<Finish(RecordFull), EmptyEvent, Progress("10.0", "0")>>
    /\ callback = "returns"
    /\ pc = "await"
    /\ result = TranslationResult(RecordFull)
    /\ calls = <<Progress("10.0", "0")>>


NotProgress(e) == ~IsProgressUpdate(e)
WithoutProgress(evs) == SelectSeq(evs, NotProgress)

\* C24: the call ends exactly as it does on the same stream with the
\* ProgressUpdate events removed, whatever the callback does and whatever the
\* progress fields hold.
C24_ProgressNeverChangesOutcome ==
    (pc = "done" /\ streamState # "unopened")
        => outcome = CallOutcome(WithoutProgress(emitted), callback, streamState,
                                 streamExc)


\* A finish event without the translate_result key.
FinishWithoutPayload(e) == e.py = "dict" /\ e.type = "finish" /\ e.translate_result.shape = Absent

\* C25: once the loop body has run on a finish event without payload, the call
\* has failed with KeyError at that event: no result was built from it, the
\* result of an earlier finish is not returned, and no later event was taken
\* from the stream.
C25_FinishWithoutPayloadFails ==
    \A i \in DOMAIN Dispatched :
        FinishWithoutPayload(Dispatched[i]) =>
            /\ i = Len(emitted)
            /\ pc = "done"
            /\ outcome = Raised("KeyError")
            /\ result = LoopOver(Front(emitted), callback, NoneValue).result
            /\ facade.kind # "returned"

\* A finish without payload after a finish with one: the call failed and the
\* result already captured was not returned.
C25_Witness ==
    /\ emitted = <<Finish(RecordFull), Finish(NoPayload)>>
    /\ pc = "done"
    /\ outcome = Raised("KeyError")
    /\ result = TranslationResult(RecordFull)

====
